---------------------------- MODULE Spec2Model ----------------------------
(***************************************************************************)
(* wl-scanner: a compiler from a Wayland protocol description to Go        *)
(* bindings.  The module models                                            *)
(*   - the name casing functions (CamelCase, snakeCase, caseAndRegister),  *)
(*   - main of src/wl-scanner.go and of src/scanner.go, step by step,      *)
(*   - the per-request / per-event generation functions of both files,     *)
(*   - the code the templates of src/wl-scanner.go generate (AddHandler,   *)
(*     RemoveHandler, Dispatch) running on several goroutines.             *)
(* A Go string that goes through the casing functions is a sequence of     *)
(* one-character strings; emitted text is a TLA+ string.                   *)
(***************************************************************************)
EXTENDS Integers, Sequences, FiniteSets, TLC

VARIABLES
    \* ---- the compiler (main of either file) ----
    src,            \* which main runs: "wl-scanner" or "scanner"
    protocol,       \* the decoded Protocol
    overwrite,      \* scanner.go: the -o flag
    pc,             \* main's position
    idx,            \* index of the range loop main is in
    wlNames,        \* the global name table
    goIface,        \* wl-scanner.go: the GoInterface of the loop body
    fileBuffer,     \* wl-scanner.go: fileBuffer, a sequence of rendered templates
    oldBuffers,     \* scanner.go: constBuffer, reqCodesBuffer, ifaceBuffer
    out,            \* the destination file
    exit,           \* "running", "zero" (main returned) or "fatal" (log.Fatal)
    logged,         \* what log.Print / log.Printf / log.Fatal wrote
    \* ---- the name casing functions applied to one name ----
    name,           \* the native name
    cased,          \* the results computed so far
    \* ---- one instance of a generated interface type ----
    handlers,       \* p.<event>Handlers, one list per event
    mu,             \* p.mu, the sync.RWMutex
    gs              \* the goroutines calling into the instance

compVars == <<src, protocol, overwrite, pc, idx, wlNames, goIface, fileBuffer,
              oldBuffers, out, exit, logged>>
caseVars == <<name, cased>>
runVars  == <<handlers, mu, gs>>
vars == <<src, protocol, overwrite, pc, idx, wlNames, goIface, fileBuffer,
          oldBuffers, out, exit, logged, name, cased, handlers, mu, gs>>

-----------------------------------------------------------------------------
(* Strings                                                                 *)

\* the text of a sequence of characters
RECURSIVE Str(_)
Str(cs) == IF cs = <<>> THEN "" ELSE Head(cs) \o Str(Tail(cs))

\* strings.Join
RECURSIVE Join(_, _)
Join(ss, sep) ==
    IF ss = <<>> THEN ""
    ELSE IF Len(ss) = 1 THEN ss[1]
    ELSE ss[1] \o sep \o Join(Tail(ss), sep)

LowerLetters == <<"a","b","c","d","e","f","g","h","i","j","k","l","m",
                  "n","o","p","q","r","s","t","u","v","w","x","y","z">>
UpperLetters == <<"A","B","C","D","E","F","G","H","I","J","K","L","M",
                  "N","O","P","Q","R","S","T","U","V","W","X","Y","Z">>
Digits == {"0","1","2","3","4","5","6","7","8","9"}

\* unicode.ToTitle on one ASCII character
ToTitleRune(c) ==
    IF \E i \in 1..Len(LowerLetters) : LowerLetters[i] = c
    THEN UpperLetters[CHOOSE i \in 1..Len(LowerLetters) : LowerLetters[i] = c]
    ELSE c

\* strings.isSeparator: letters, digits and the underscore are not separators
isSeparator(c) ==
    ~ (\/ \E i \in 1..Len(LowerLetters) : LowerLetters[i] = c \/ UpperLetters[i] = c
       \/ c \in Digits
       \/ c = "_")

\* strings.Title: the title case of every character that follows a separator
\* (the string starts as if after a space)
Title(s) ==
    [i \in 1..Len(s) |->
        IF (i = 1 \/ isSeparator(s[i-1])) THEN ToTitleRune(s[i]) ELSE s[i]]

\* strings.ToTitle
ToTitle(s) == [i \in 1..Len(s) |-> ToTitleRune(s[i])]

HasPrefix(s, p) == Len(s) >= Len(p) /\ SubSeq(s, 1, Len(p)) = p

TrimPrefix(s, p) == IF HasPrefix(s, p) THEN SubSeq(s, Len(p) + 1, Len(s)) ELSE s

\* strings.Replace(s, old, new, -1) for one-character old and new
Replace(s, old, new) == [i \in 1..Len(s) |-> IF s[i] = old THEN new ELSE s[i]]

\* strings.Replace(s, c, "", -1)
RECURSIVE Remove(_, _)
Remove(s, c) ==
    IF s = <<>> THEN <<>>
    ELSE IF Head(s) = c THEN Remove(Tail(s), c)
    ELSE <<Head(s)>> \o Remove(Tail(s), c)

\* strings.Split(s, sep) for a one-character sep: always at least one part
RECURSIVE Split(_, _)
Split(s, sep) ==
    IF \A i \in 1..Len(s) : s[i] # sep THEN <<s>>
    ELSE LET k == CHOOSE i \in 1..Len(s) :
                      s[i] = sep /\ \A j \in 1..(i-1) : s[j] # sep
         IN  <<SubSeq(s, 1, k - 1)>> \o Split(SubSeq(s, k + 1, Len(s)), sep)

RECURSIVE Concat(_)
Concat(parts) == IF parts = <<>> THEN <<>> ELSE Head(parts) \o Concat(Tail(parts))

WlPrefix == <<"w", "l", "_">>

\* a faulty variant of CamelCase: the namespace prefix is kept
CamelCaseKeepPrefix(wlName) ==
    Remove(Title(Replace(wlName, "_", " ")), " ")

CamelCase(wlName) ==
    LET trimmed == IF HasPrefix(wlName, WlPrefix)
                   THEN TrimPrefix(wlName, WlPrefix) ELSE wlName
        spaced  == Replace(trimmed, "_", " ")
        titled  == Title(spaced)
    IN  Remove(titled, " ")

snakeCase(wlName) ==
    LET trimmed == IF HasPrefix(wlName, WlPrefix)
                   THEN TrimPrefix(wlName, WlPrefix) ELSE wlName
        spaced  == Replace(trimmed, "_", " ")
        parts   == Split(spaced, " ")
        titled  == [i \in 1..Len(parts) |->
                       IF i = 1 THEN parts[i] ELSE Title(parts[i])]
    IN  Concat(titled)

\* a Go map[string]string: a function on the keys that were set
EmptyMap == [k \in {} |-> <<>>]

\* m[k] of a Go map: the zero value, the empty string, for a missing key
Lookup(m, k) == IF k \in DOMAIN m THEN m[k] ELSE <<>>

MapSet(m, k, v) == [x \in DOMAIN m \cup {k} |-> IF x = k THEN v ELSE m[x]]

\* caseAndRegister: the table after the call (the call returns CamelCase(wlName))
caseAndRegister(m, wlName) == MapSet(m, wlName, CamelCase(wlName))


-----------------------------------------------------------------------------
(* The tables of both files                                                *)

\* wlTypes[t], with ok: the Go type of a primitive wire type
wlTypesHas(t) == t \in {"int", "uint", "string", "fd", "fixed", "array"}

wlTypes(t) ==
    CASE t = "int"    -> "int32"
      [] t = "uint"   -> "uint32"
      [] t = "string" -> "string"
      [] t = "fd"     -> "uintptr"
      [] t = "fixed"  -> "float32"
      [] t = "array"  -> "[]int32"
      [] OTHER        -> ""

\* bufTypesMap[t], with ok: the decode operation of a Go type
bufTypesMapHas(t) ==
    t \in {"int32", "uint32", "string", "float32", "[]int32", "uintptr"}

bufTypesMap(t) ==
    CASE t = "int32"   -> "Int32()"
      [] t = "uint32"  -> "Uint32()"
      [] t = "string"  -> "String()"
      [] t = "float32" -> "Float32()"
      [] t = "[]int32" -> "Array()"
      [] t = "uintptr" -> "FD()"
      [] OTHER         -> ""

inheritedNames == <<
    <<"w","l","_","d","i","s","p","l","a","y">>,
    <<"w","l","_","r","e","g","i","s","t","r","y">>,
    <<"w","l","_","c","a","l","l","b","a","c","k">>,
    <<"w","l","_","c","o","m","p","o","s","i","t","o","r">>,
    <<"w","l","_","s","h","m","_","p","o","o","l">>,
    <<"w","l","_","s","h","m">>,
    <<"w","l","_","b","u","f","f","e","r">>,
    <<"w","l","_","d","a","t","a","_","o","f","f","e","r">>,
    <<"w","l","_","d","a","t","a","_","s","o","u","r","c","e">>,
    <<"w","l","_","d","a","t","a","_","d","e","v","i","c","e">>,
    <<"w","l","_","d","a","t","a","_","d","e","v","i","c","e","_","m","a","n","a","g","e","r">>,
    <<"w","l","_","s","h","e","l","l">>,
    <<"w","l","_","s","h","e","l","l","_","s","u","r","f","a","c","e">>,
    <<"w","l","_","s","u","r","f","a","c","e">>,
    <<"w","l","_","s","e","a","t">>,
    <<"w","l","_","p","o","i","n","t","e","r">>,
    <<"w","l","_","k","e","y","b","o","a","r","d">>,
    <<"w","l","_","t","o","u","c","h">>,
    <<"w","l","_","o","u","t","p","u","t">>,
    <<"w","l","_","r","e","g","i","o","n">>,
    <<"w","l","_","s","u","b","c","o","m","p","o","s","i","t","o","r">>,
    <<"w","l","_","s","u","b","s","u","r","f","a","c","e">>
>>

-----------------------------------------------------------------------------
(* Go slices of strings: a slice is a window (arr, len, cap) on a backing  *)
(* array of the heap; append writes in place while len < cap and copies to *)
(* a new array otherwise, so two slices may share one array.               *)

NilSlice == [arr |-> 0, len |-> 0, cap |-> 0]

\* runtime.growslice for one appended element (capacities below 256 double)
GrowCap(oldCap, needed) == IF needed > 2 * oldCap THEN needed ELSE 2 * oldCap

\* the elements of slice s
Elems(heap, s) == IF s.len = 0 THEN <<>> ELSE SubSeq(heap[s.arr], 1, s.len)

\* append(s, v): the heap and the slice after it
GoAppend(heap, s, v) ==
    IF s.len < s.cap
    THEN [heap  |-> [heap EXCEPT ![s.arr][s.len + 1] = v],
          slice |-> [s EXCEPT !.len = s.len + 1]]
    ELSE LET newCap == GrowCap(s.cap, s.len + 1)
             fresh  == [i \in 1..newCap |->
                           IF i <= s.len THEN heap[s.arr][i]
                           ELSE IF i = s.len + 1 THEN v ELSE ""]
         IN  [heap  |-> Append(heap, fresh),
              slice |-> [arr |-> Len(heap) + 1, len |-> s.len + 1, cap |-> newCap]]

-----------------------------------------------------------------------------
(* src/wl-scanner.go: generation.  A rendered template is a record of the  *)
(* values the template text places; its field tpl names the template.      *)
(* The doc comment of a request (Summary, Description) is left out.        *)

\* the state of the loop over wlReq.Args in ProcessRequests
ReqLoopInit ==
    [heap |-> <<>>, params |-> NilSlice, sendRequestArgs |-> NilSlice,
     returns |-> <<>>, HasNewId |-> FALSE, NewIdInterface |-> <<>>]

AppendParams(st, v) ==
    LET a == GoAppend(st.heap, st.params, v)
    IN  [st EXCEPT !.heap = a.heap, !.params = a.slice]

AppendSendRequestArgs(st, v) ==
    LET a == GoAppend(st.heap, st.sendRequestArgs, v)
    IN  [st EXCEPT !.heap = a.heap, !.sendRequestArgs = a.slice]

\* a faulty variant of ReqArgStep: a typed new_id is treated as a late-bound one
ReqArgStepNoTypedNewId(names, st, arg) ==
    IF arg.Type = "new_id"
    THEN AppendParams(AppendParams(AppendParams(
             AppendSendRequestArgs(AppendSendRequestArgs(AppendSendRequestArgs(st,
                 "iface"), "version"), Str(arg.Name)),
             "iface string"), "version uint32"), Str(arg.Name) \o " Proxy")
    ELSE AppendParams(AppendSendRequestArgs(st, Str(arg.Name)),
                      Str(arg.Name) \o " " \o wlTypes(arg.Type))

\* one pass of the loop body over wlReq.Args
ReqArgStep(names, st, arg) ==
    IF arg.Type = "new_id"
    THEN IF arg.Interface # <<>>
         THEN LET newIdIface == Lookup(names, arg.Interface)
                  \* sendRequestArgs = append(params, "Proxy(ret)")
                  a == GoAppend(st.heap, st.params, "Proxy(ret)")
              IN  [st EXCEPT !.heap = a.heap,
                             !.sendRequestArgs = a.slice,
                             !.NewIdInterface = newIdIface,
                             !.HasNewId = TRUE,
                             !.returns = Append(st.returns, "*" \o Str(newIdIface))]
         ELSE AppendParams(AppendParams(AppendParams(
                  AppendSendRequestArgs(AppendSendRequestArgs(AppendSendRequestArgs(st,
                      "iface"), "version"), Str(arg.Name)),
                  "iface string"), "version uint32"), Str(arg.Name) \o " Proxy")
    ELSE IF arg.Type = "object" /\ arg.Interface # <<>>
    THEN LET paramTypeName == Lookup(names, arg.Interface)
         IN  AppendSendRequestArgs(
                 AppendParams(st, Str(arg.Name) \o " *" \o Str(paramTypeName)),
                 Str(arg.Name))
    ELSE AppendParams(AppendSendRequestArgs(st, Str(arg.Name)),
                      Str(arg.Name) \o " " \o wlTypes(arg.Type))

RECURSIVE ReqArgLoop(_, _, _)
ReqArgLoop(names, st, args) ==
    IF args = <<>> THEN st
    ELSE ReqArgLoop(names, ReqArgStep(names, st, Head(args)), Tail(args))

\* a faulty variant of GoRequestOf: opcodes count from one
GoRequestOfOneBased(names, ifaceName, order, wlReq) ==
    LET st == ReqArgLoop(names, ReqLoopInit, wlReq.Args)
        sendRequestArgs == Elems(st.heap, st.sendRequestArgs)
    IN  [Name           |-> CamelCase(wlReq.Name),
         IfaceName      |-> ifaceName,
         Order          |-> order + 1,
         Params         |-> Join(Elems(st.heap, st.params), ","),
         Args           |-> IF Len(sendRequestArgs) > 0
                            THEN "," \o Join(sendRequestArgs, ",") ELSE "",
         Returns        |-> IF Len(st.returns) > 0
                            THEN "(" \o Join(st.returns, ",") \o " , error)"
                            ELSE "error",
         HasNewId       |-> st.HasNewId,
         NewIdInterface |-> st.NewIdInterface]

\* the GoRequest that ProcessRequests builds for the request at index order
GoRequestOf(names, ifaceName, order, wlReq) ==
    LET st == ReqArgLoop(names, ReqLoopInit, wlReq.Args)
        sendRequestArgs == Elems(st.heap, st.sendRequestArgs)
    IN  [Name           |-> CamelCase(wlReq.Name),
         IfaceName      |-> ifaceName,
         Order          |-> order,
         Params         |-> Join(Elems(st.heap, st.params), ","),
         Args           |-> IF Len(sendRequestArgs) > 0
                            THEN "," \o Join(sendRequestArgs, ",") ELSE "",
         Returns        |-> IF Len(st.returns) > 0
                            THEN "(" \o Join(st.returns, ",") \o " , error)"
                            ELSE "error",
         HasNewId       |-> st.HasNewId,
         NewIdInterface |-> st.NewIdInterface]

\* requestTemplate executed on a GoRequest
RenderRequest(req) ==
    [tpl       |-> "RequestTemplate",
     recv      |-> Str(req.IfaceName),
     method    |-> Str(req.Name),
     params    |-> req.Params,
     returns   |-> req.Returns,
     construct |-> IF req.HasNewId THEN "New" \o Str(req.NewIdInterface) ELSE "",
     retObject |-> req.HasNewId,
     call      |-> [func |-> "sendRequest", self |-> "p", opcode |-> req.Order,
                    args |-> req.Args]]

\* ProcessRequests: the GoRequests of an interface, in the order of its Requests
GoRequestsOf(names, ifaceName, wlIface) ==
    [k \in 1..Len(wlIface.Requests) |->
        GoRequestOf(names, ifaceName, k - 1, wlIface.Requests[k])]

\* the GoArg that ProcessEvents builds for one event Arg
GoArgOf(names, arg) ==
    LET basic == wlTypesHas(arg.Type)
        t     == IF basic THEN wlTypes(arg.Type)
                 ELSE IF arg.Type \in {"object", "new_id"} /\ arg.Interface # <<>>
                 THEN "*" \o Str(Lookup(names, arg.Interface))
                 ELSE "Proxy"
    IN  [Name      |-> CamelCase(arg.Name),
         PName     |-> snakeCase(arg.Name),
         Type      |-> t,
         BufMethod |-> IF basic
                       THEN (IF bufTypesMapHas(t) THEN bufTypesMap(t) ELSE "")
                       ELSE IF arg.Type \in {"object", "new_id"} /\ arg.Interface # <<>>
                       THEN "Proxy(p.Context()).(" \o t \o ")"
                       ELSE "Proxy(p.Context())"]

\* the GoEvent that ProcessEvents builds for one event
GoEventOf(names, ifaceName, wlEv) ==
    [Name      |-> CamelCase(wlEv.Name),
     PName     |-> snakeCase(wlEv.Name),
     IfaceName |-> ifaceName,
     Args      |-> [k \in 1..Len(wlEv.Args) |-> GoArgOf(names, wlEv.Args[k])]]

\* ProcessEvents: the GoEvents of an interface, in the order of its Events
GoEventsOf(names, ifaceName, wlIface) ==
    [k \in 1..Len(wlIface.Events) |-> GoEventOf(names, ifaceName, wlIface.Events[k])]

\* eventTemplate executed on a GoEvent
RenderEvent(ev) ==
    [tpl    |-> "EventTemplate",
     type   |-> Str(ev.IfaceName) \o Str(ev.Name) \o "Event",
     fields |-> [k \in 1..Len(ev.Args) |->
                    Str(ev.Args[k].Name) \o " " \o ev.Args[k].Type]]

\* ifaceAddRemoveHandlerTemplate executed on a GoEvent
RenderAddRemoveHandler(ev) ==
    [tpl    |-> "AddRemoveHandlerTemplate",
     recv   |-> Str(ev.IfaceName),
     add    |-> "Add" \o Str(ev.Name) \o "Handler",
     remove |-> "Remove" \o Str(ev.Name) \o "Handler",
     list   |-> Str(ev.PName) \o "Handlers",
     lock   |-> "mu"]

\* a faulty variant of RenderDispatch: the cases count from one
RenderDispatchOneBased(i) ==
    [tpl   |-> "InterfaceDispatchTemplate",
     recv  |-> Str(i.Name),
     lock  |-> "mu",
     cases |-> [k \in 1..Len(i.Events) |->
                   [opcode |-> k,
                    list   |-> Str(i.Events[k].PName) \o "Handlers",
                    record |-> Str(i.Name) \o Str(i.Events[k].Name) \o "Event",
                    decode |-> [a \in 1..Len(i.Events[k].Args) |->
                                   [field  |-> Str(i.Events[k].Args[a].Name),
                                    method |-> i.Events[k].Args[a].BufMethod]]]]]

\* ifaceDispatchTemplate executed on a GoInterface: case $i of the range over
\* .Events, $i counting from zero
RenderDispatch(i) ==
    [tpl   |-> "InterfaceDispatchTemplate",
     recv  |-> Str(i.Name),
     lock  |-> "mu",
     cases |-> [k \in 1..Len(i.Events) |->
                   [opcode |-> k - 1,
                    list   |-> Str(i.Events[k].PName) \o "Handlers",
                    record |-> Str(i.Name) \o Str(i.Events[k].Name) \o "Event",
                    decode |-> [a \in 1..Len(i.Events[k].Args) |->
                                   [field  |-> Str(i.Events[k].Args[a].Name),
                                    method |-> i.Events[k].Args[a].BufMethod]]]]]

\* a faulty variant of RenderType: the type is rendered as it would be before
\* the events of the interface were processed
RenderTypeBeforeEvents(i) ==
    [tpl   |-> "InterfaceTypeTemplate",
     type  |-> Str(i.Name),
     mu    |-> FALSE,
     lists |-> <<>>]

\* ifaceTypeTemplate executed on a GoInterface
RenderType(i) ==
    [tpl   |-> "InterfaceTypeTemplate",
     type  |-> Str(i.Name),
     mu    |-> Len(i.Events) > 0,
     lists |-> [k \in 1..Len(i.Events) |-> Str(i.Events[k].PName) \o "Handlers"]]

\* ifaceConstructorTemplate executed on a GoInterface
RenderConstructor(i) ==
    [tpl  |-> "InterfaceConstructorTemplate",
     func |-> "New" \o Str(i.Name),
     type |-> Str(i.Name)]

\* the GoEnum that ProcessEnums builds for one enum
GoEnumOf(ifaceName, wlEnum) ==
    [Name      |-> CamelCase(wlEnum.Name),
     IfaceName |-> ifaceName,
     Entries   |-> [k \in 1..Len(wlEnum.Entries) |->
                       [Name  |-> CamelCase(wlEnum.Entries[k].Name),
                        Value |-> wlEnum.Entries[k].Value]]]

\* ifaceEnums executed on a GoEnum
RenderEnum(en) ==
    [tpl    |-> "InterfaceEnumsTemplate",
     consts |-> [k \in 1..Len(en.Entries) |->
                    Str(en.IfaceName) \o Str(en.Name) \o Str(en.Entries[k].Name)
                        \o " = " \o en.Entries[k].Value]]

\* what ProcessEvents writes to fileBuffer for the events evs of interface i
RECURSIVE RenderEvents(_)
RenderEvents(evs) ==
    IF evs = <<>> THEN <<>>
    ELSE <<RenderEvent(Head(evs)), RenderAddRemoveHandler(Head(evs))>>
             \o RenderEvents(Tail(evs))

-----------------------------------------------------------------------------
(* src/scanner.go: generation.  What a function prints to a buffer is a    *)
(* record of the values its format strings place.                          *)

\* enumArgName; fatal is log.Fatal("enum args must be ...")
enumArgName(ifaceName, enumName) ==
    IF \A i \in 1..Len(enumName) : enumName[i] # "."
    THEN [fatal |-> FALSE, text |-> Str(ifaceName) \o Str(CamelCase(enumName))]
    ELSE LET parts == Split(enumName, ".")
         IN  IF Len(parts) # 2
             THEN [fatal |-> TRUE, text |-> ""]
             ELSE [fatal |-> FALSE,
                   text  |-> Str(CamelCase(parts[1])) \o Str(CamelCase(parts[2]))]

\* requestArgs: the parameter list of a request's method
RECURSIVE requestArgsLoop(_, _, _, _)
requestArgsLoop(names, ifaceName, args, acc) ==
    IF args = <<>> THEN [fatal |-> FALSE, args |-> acc]
    ELSE LET arg == Head(args)
         IN  IF arg.Type = "new_id"
             THEN IF arg.Interface = <<>>
                  THEN requestArgsLoop(names, ifaceName, Tail(args),
                           acc \o <<"iface string", "version uint32",
                                    Str(arg.Name) \o " Proxy">>)
                  ELSE requestArgsLoop(names, ifaceName, Tail(args), acc)
             ELSE IF arg.Type = "object" /\ arg.Interface # <<>>
             THEN requestArgsLoop(names, ifaceName, Tail(args),
                      Append(acc, Str(arg.Name) \o " *"
                                      \o Str(Lookup(names, arg.Interface))))
             ELSE IF arg.Type = "uint" /\ arg.Enum # <<>>
             THEN LET e == enumArgName(ifaceName, arg.Enum)
                  IN  IF e.fatal THEN [fatal |-> TRUE, args |-> acc]
                      ELSE requestArgsLoop(names, ifaceName, Tail(args),
                               Append(acc, Str(arg.Name) \o " " \o e.text))
             ELSE requestArgsLoop(names, ifaceName, Tail(args),
                      Append(acc, Str(arg.Name) \o " " \o wlTypes(arg.Type)))

requestArgs(names, ifaceName, req) ==
    LET r == requestArgsLoop(names, ifaceName, req.Args, <<>>)
    IN  [fatal |-> r.fatal, text |-> Join(r.args, ",")]

\* requestRets: the result list of a request's method
RECURSIVE requestRetsLoop(_, _)
requestRetsLoop(names, args) ==
    IF args = <<>> THEN <<>>
    ELSE (IF Head(args).Type = "new_id" /\ Head(args).Interface # <<>>
          THEN <<"*" \o Str(Lookup(names, Head(args).Interface))>> ELSE <<>>)
             \o requestRetsLoop(names, Tail(args))

requestRets(names, req) ==
    LET rets == Append(requestRetsLoop(names, req.Args), "error")
    IN  IF Len(rets) > 1 THEN "( " \o Join(rets, ",") \o " )" ELSE Join(rets, ",")

\* requestBody: the state of its loop over req.Args
RECURSIVE requestBodyLoop(_, _, _)
requestBodyLoop(names, args, st) ==
    IF args = <<>> THEN st
    ELSE LET arg == Head(args)
         IN  IF arg.Type = "new_id"
             THEN IF arg.Interface # <<>>
                  THEN requestBodyLoop(names, Tail(args),
                           [construct |-> Append(st.construct,
                                "ret := New" \o Str(Lookup(names, arg.Interface))
                                    \o "(p.Connection())"),
                            params |-> Append(st.params, "Proxy(ret)"),
                            hasRet |-> "ret,"])
                  ELSE requestBodyLoop(names, Tail(args),
                           [st EXCEPT !.params =
                                st.params \o <<"iface", "version", Str(arg.Name)>>])
             ELSE requestBodyLoop(names, Tail(args),
                      [st EXCEPT !.params = Append(st.params, Str(arg.Name))])

RECURSIVE CommaEach(_)
CommaEach(params) ==
    IF params = <<>> THEN "" ELSE "," \o Head(params) \o CommaEach(Tail(params))

requestBody(names, req, reqCodeName) ==
    LET st == requestBodyLoop(names, req.Args,
                  [construct |-> <<>>, params |-> <<>>, hasRet |-> ""])
    IN  [construct |-> st.construct,
         hasRet    |-> st.hasRet,
         call      |-> [func |-> "SendRequest", self |-> "p", opcode |-> reqCodeName,
                        args |-> CommaEach(st.params)]]

\* the name of a request's opcode constant
reqCodeNameOf(ifaceName, reqName) ==
    Str(ToTitle(<<"_">> \o ifaceName \o <<"_">> \o reqName))

\* interfaceRequests: what it prints for the requests from index k on, until a
\* log.Fatal; codes goes to reqCodesBuffer and decls to ifaceBuffer
RECURSIVE interfaceRequestsLoop(_, _, _, _, _)
interfaceRequestsLoop(names, ifaceName, reqs, k, acc) ==
    IF k > Len(reqs) THEN acc
    ELSE LET req == reqs[k]
             reqName == CamelCase(req.Name)
             reqCodeName == reqCodeNameOf(ifaceName, reqName)
             code == [tpl |-> "reqCode", name |-> reqCodeName, value |-> k - 1]
             a == requestArgs(names, ifaceName, req)
             b == requestBody(names, req, reqCodeName)
             decl == [tpl       |-> "request",
                      recv      |-> Str(ifaceName),
                      method    |-> Str(reqName),
                      params    |-> a.text,
                      returns   |-> requestRets(names, req),
                      construct |-> b.construct,
                      hasRet    |-> b.hasRet,
                      call      |-> b.call]
         IN  IF a.fatal
             THEN [fatal |-> TRUE, codes |-> Append(acc.codes, code), decls |-> acc.decls]
             ELSE interfaceRequestsLoop(names, ifaceName, reqs, k + 1,
                      [fatal |-> FALSE, codes |-> Append(acc.codes, code),
                       decls |-> Append(acc.decls, decl)])

interfaceRequests(names, iface) ==
    interfaceRequestsLoop(names, Lookup(names, iface.Name), iface.Requests, 1,
        [fatal |-> FALSE, codes |-> <<>>, decls |-> <<>>])

\* the field of an event record type that interfaceEvents prints for one Arg
eventField(names, ifaceName, arg) ==
    IF wlTypesHas(arg.Type)
    THEN IF arg.Type = "uint" /\ arg.Enum # <<>>
         THEN Str(CamelCase(arg.Name)) \o " " \o Str(ifaceName) \o Str(CamelCase(arg.Enum))
         ELSE Str(CamelCase(arg.Name)) \o " " \o wlTypes(arg.Type)
    ELSE IF arg.Type \in {"object", "new_id"} /\ arg.Interface # <<>>
    THEN Str(CamelCase(arg.Name)) \o " *" \o Str(Lookup(names, arg.Interface))
    ELSE Str(CamelCase(arg.Name)) \o " Proxy"

\* interfaceEvents: every event's name is registered in wlNames before its
\* fields are printed; the result is the table, the printed record types and
\* eventNames
RECURSIVE interfaceEventsLoop(_, _, _)
interfaceEventsLoop(ifaceName, events, acc) ==
    IF events = <<>> THEN acc
    ELSE LET event == Head(events)
             names == caseAndRegister(acc.names, event.Name)
             eventName == CamelCase(event.Name)
             decl == [tpl    |-> "event",
                      type   |-> Str(ifaceName) \o Str(eventName) \o "Event",
                      fields |-> [k \in 1..Len(event.Args) |->
                                     eventField(names, ifaceName, event.Args[k])]]
         IN  interfaceEventsLoop(ifaceName, Tail(events),
                 [names      |-> names,
                  decls      |-> Append(acc.decls, decl),
                  eventNames |-> Append(acc.eventNames, eventName)])

interfaceEvents(names, iface) ==
    interfaceEventsLoop(Lookup(names, iface.Name), iface.Events,
        [names |-> names, decls |-> <<>>, eventNames |-> <<>>])

\* interfaceTypes
interfaceTypes(names, iface, eventNames) ==
    [tpl   |-> "type",
     type  |-> Str(Lookup(names, iface.Name)),
     chans |-> [k \in 1..Len(eventNames) |-> Str(eventNames[k]) \o "Chan"]]

\* interfaceConstructor
interfaceConstructor(names, iface, eventNames) ==
    [tpl   |-> "constructor",
     func  |-> "New" \o Str(Lookup(names, iface.Name)),
     type  |-> Str(Lookup(names, iface.Name)),
     makes |-> [k \in 1..Len(eventNames) |-> Str(eventNames[k]) \o "Chan"]]

\* interfaceEnums: the names of every enum and of every entry are registered
\* in wlNames; the result is the table and what goes to constBuffer
RECURSIVE enumEntriesLoop(_, _, _)
enumEntriesLoop(prefix, entries, acc) ==
    IF entries = <<>> THEN acc
    ELSE enumEntriesLoop(prefix, Tail(entries),
             [names  |-> caseAndRegister(acc.names, Head(entries).Name),
              consts |-> Append(acc.consts,
                             prefix \o Str(CamelCase(Head(entries).Name))
                                 \o " = " \o Head(entries).Value)])

RECURSIVE interfaceEnumsLoop(_, _, _)
interfaceEnumsLoop(ifaceName, enums, acc) ==
    IF enums = <<>> THEN acc
    ELSE LET enum == Head(enums)
             names == caseAndRegister(acc.names, enum.Name)
             constTypeName == Str(ifaceName) \o Str(CamelCase(enum.Name))
             e == enumEntriesLoop(constTypeName, enum.Entries,
                      [names |-> names, consts |-> <<>>])
         IN  interfaceEnumsLoop(ifaceName, Tail(enums),
                 [names |-> e.names,
                  decls |-> Append(acc.decls,
                                [tpl |-> "enum", type |-> constTypeName,
                                 consts |-> e.consts])])

interfaceEnums(names, iface) ==
    interfaceEnumsLoop(Lookup(names, iface.Name), iface.Enums,
        [names |-> names, decls |-> <<>>])

-----------------------------------------------------------------------------
(* main of src/wl-scanner.go and of src/scanner.go                         *)

Running == exit = "running"

Fatal(msg) == /\ exit' = "fatal"
              /\ logged' = Append(logged, msg)

\* the destination before main touches it
Untouched == [state |-> "untouched", existed |-> "unknown", data |-> <<>>,
              creates |-> 0, writes |-> 0, fmtRuns |-> 0]

NoGoIface == [Name |-> <<>>, Events |-> <<>>, Requests |-> <<>>]

NoBuffers == [constBuffer |-> <<>>, reqCodesBuffer |-> <<>>, ifaceBuffer |-> <<>>]

\* wl-scanner.go: sourceData and decodeWlXML; scanner.go: os.Open (or
\* getDevelXml) and Decode.  The source may be unreadable or malformed.
Load ==
    /\ Running /\ pc = "start"
    /\ UNCHANGED <<caseVars, runVars>>
    /\ \E outcome \in {"ok", "cannot open", "cannot decode"} :
          IF outcome = "ok"
          THEN pc' = "seed" /\ UNCHANGED <<exit, logged>>
          ELSE Fatal(outcome) /\ UNCHANGED pc
    /\ UNCHANGED <<src, protocol, overwrite, idx, wlNames, goIface, fileBuffer,
                   oldBuffers, out>>

\* the table after the loop over inheritedNames
RECURSIVE SeedInherited(_, _)
SeedInherited(m, inherit) ==
    IF inherit = <<>> THEN m
    ELSE SeedInherited(MapSet(m, Head(inherit), CamelCase(Head(inherit))),
                       Tail(inherit))

\* wlNames = make(...) and, in wl-scanner.go, the inherited names of a protocol
\* other than "wayland"
SeedTable(source, protocolName) ==
    IF source = "wl-scanner" /\ protocolName # "wayland"
    THEN SeedInherited(EmptyMap, inheritedNames)
    ELSE EmptyMap

Seed ==
    /\ Running /\ pc = "seed"
    /\ UNCHANGED <<caseVars, runVars>>
    /\ wlNames' = SeedTable(src, protocol.Name)
    /\ oldBuffers' = IF src = "scanner"
                     THEN [oldBuffers EXCEPT !.constBuffer =
                                              <<[tpl |-> "package", name |-> "wl"]>>]
                     ELSE oldBuffers
    /\ pc' = "register" /\ idx' = 1
    /\ UNCHANGED <<src, protocol, overwrite, goIface, fileBuffer, out, exit, logged>>

\* a faulty variant of RegisterDone: the registration loop stops one interface early
RegisterDoneEarly(i) == i > Len(protocol.Interfaces) - 1

\* the condition that ends the loop "for _, iface := range protocol.Interfaces"
RegisterDone(i) == i > Len(protocol.Interfaces)

\* one pass of the registration loop, or its end
Register ==
    /\ Running /\ pc = "register"
    /\ UNCHANGED <<caseVars, runVars>>
    /\ IF RegisterDone(idx)
       THEN pc' = "header" /\ UNCHANGED <<wlNames, idx>>
       ELSE /\ wlNames' = caseAndRegister(wlNames, protocol.Interfaces[idx].Name)
            /\ idx' = idx + 1
            /\ UNCHANGED pc
    /\ UNCHANGED <<src, protocol, overwrite, goIface, fileBuffer, oldBuffers, out,
                   exit, logged>>

\* where main goes after the generation loop: scanner.go looks for client.go
AfterGeneration == IF src = "wl-scanner" THEN "create" ELSE "stat"

\* a faulty variant of GenerationDone: the generation loop leaves out the
\* last interface
GenerationDoneEarly(i) == i > Len(protocol.Interfaces) - 1

\* the condition that ends the generation loop
\* "for _, iface := range protocol.Interfaces"
GenerationDone(i) == i > Len(protocol.Interfaces)

\* what precedes the generation loop: the file header of wl-scanner.go, the
\* opening of the request code block of scanner.go
Header ==
    /\ Running /\ pc = "header"
    /\ UNCHANGED <<caseVars, runVars>>
    /\ IF src = "wl-scanner"
       THEN /\ fileBuffer' = Append(fileBuffer,
                                 [tpl |-> "header", package |-> "wl", import |-> "sync"])
            /\ UNCHANGED oldBuffers
       ELSE /\ oldBuffers' = [oldBuffers EXCEPT !.reqCodesBuffer =
                                                   <<[tpl |-> "const ("]>>]
            /\ UNCHANGED fileBuffer
    /\ idx' = 1
    /\ pc' = IF GenerationDone(1) THEN AfterGeneration ELSE "events"
    /\ UNCHANGED <<src, protocol, overwrite, wlNames, goIface, out, exit, logged>>

\* wl-scanner.go: the GoInterface literal and goIface.ProcessEvents();
\* scanner.go: interfaceEvents and the copy of eventBuffer to ifaceBuffer
ProcessEvents ==
    /\ Running /\ pc = "events"
    /\ UNCHANGED <<caseVars, runVars>>
    /\ LET iface == protocol.Interfaces[idx]
       IN  IF src = "wl-scanner"
           THEN LET ifaceName == Lookup(wlNames, iface.Name)
                    events == GoEventsOf(wlNames, ifaceName, iface)
                    i == [Name |-> ifaceName, Events |-> events, Requests |-> <<>>]
                IN  /\ goIface' = i
                    /\ fileBuffer' = fileBuffer \o RenderEvents(events)
                           \o (IF Len(events) > 0 THEN <<RenderDispatch(i)>> ELSE <<>>)
                    /\ UNCHANGED <<wlNames, oldBuffers>>
           ELSE LET r == interfaceEvents(wlNames, iface)
                IN  /\ wlNames' = r.names
                    /\ goIface' = [Name |-> Lookup(wlNames, iface.Name),
                                   Events |-> r.eventNames, Requests |-> <<>>]
                    /\ oldBuffers' = [oldBuffers EXCEPT
                                         !.ifaceBuffer = oldBuffers.ifaceBuffer \o r.decls]
                    /\ UNCHANGED fileBuffer
    /\ pc' = "constructor"
    /\ UNCHANGED <<src, protocol, overwrite, idx, out, exit, logged>>

\* wl-scanner.go: goIface.Constructor(); scanner.go: interfaceTypes and
\* interfaceConstructor
Constructor ==
    /\ Running /\ pc = "constructor"
    /\ UNCHANGED <<caseVars, runVars>>
    /\ IF src = "wl-scanner"
       THEN /\ fileBuffer' = fileBuffer \o
                                <<RenderType(goIface), RenderConstructor(goIface)>>
            /\ UNCHANGED oldBuffers
       ELSE /\ oldBuffers' = [oldBuffers EXCEPT !.ifaceBuffer = oldBuffers.ifaceBuffer \o
                   <<interfaceTypes(wlNames, protocol.Interfaces[idx], goIface.Events),
                     interfaceConstructor(wlNames, protocol.Interfaces[idx],
                                          goIface.Events)>>]
            /\ UNCHANGED fileBuffer
    /\ pc' = "requests"
    /\ UNCHANGED <<src, protocol, overwrite, idx, wlNames, goIface, out, exit, logged>>

\* wl-scanner.go: goIface.ProcessRequests(); scanner.go: interfaceRequests,
\* which ends the run when an enum reference is malformed
ProcessRequests ==
    /\ Running /\ pc = "requests"
    /\ UNCHANGED <<caseVars, runVars>>
    /\ IF src = "wl-scanner"
       THEN LET reqs == GoRequestsOf(wlNames, goIface.Name, protocol.Interfaces[idx])
            IN  /\ goIface' = [goIface EXCEPT !.Requests = reqs]
                /\ fileBuffer' = fileBuffer \o
                                    [k \in 1..Len(reqs) |-> RenderRequest(reqs[k])]
                /\ pc' = "enums"
                /\ UNCHANGED <<oldBuffers, exit, logged>>
       ELSE LET r == interfaceRequests(wlNames, protocol.Interfaces[idx])
            IN  /\ oldBuffers' = [oldBuffers EXCEPT
                       !.reqCodesBuffer = oldBuffers.reqCodesBuffer \o r.codes,
                       !.ifaceBuffer = oldBuffers.ifaceBuffer \o r.decls]
                /\ IF r.fatal
                   THEN Fatal("enum args must be \"interface.enum\" format")
                        /\ UNCHANGED pc
                   ELSE pc' = "enums" /\ UNCHANGED <<exit, logged>>
                /\ UNCHANGED <<goIface, fileBuffer>>
    /\ UNCHANGED <<src, protocol, overwrite, idx, wlNames, out>>

\* wl-scanner.go: goIface.ProcessEnums(); scanner.go: interfaceEnums; then the
\* next pass of the generation loop, or its end
ProcessEnums ==
    /\ Running /\ pc = "enums"
    /\ UNCHANGED <<caseVars, runVars>>
    /\ IF src = "wl-scanner"
       THEN LET enums == protocol.Interfaces[idx].Enums
            IN  /\ fileBuffer' = fileBuffer \o
                       [k \in 1..Len(enums) |->
                           RenderEnum(GoEnumOf(goIface.Name, enums[k]))]
                /\ UNCHANGED <<wlNames, oldBuffers>>
       ELSE LET r == interfaceEnums(wlNames, protocol.Interfaces[idx])
            IN  /\ wlNames' = r.names
                /\ oldBuffers' = [oldBuffers EXCEPT
                                     !.constBuffer = oldBuffers.constBuffer \o r.decls]
                /\ UNCHANGED fileBuffer
    /\ idx' = idx + 1
    /\ pc' = IF GenerationDone(idx + 1) THEN AfterGeneration ELSE "events"
    /\ UNCHANGED <<src, protocol, overwrite, goIface, out, exit, logged>>

\* a faulty variant of Protected: client.go is overwritten without -o
ProtectedNever(exists) == FALSE

\* "if _, err := os.Stat("client.go"); err == nil { if !*overwrite {"
Protected(exists) == exists /\ ~overwrite

\* scanner.go: the end of the request code block and "if file exists": the run
\* ends, logged and not fatal, when client.go exists and -o was not given
Stat ==
    /\ Running /\ pc = "stat"
    /\ UNCHANGED <<caseVars, runVars>>
    /\ oldBuffers' = [oldBuffers EXCEPT
                         !.reqCodesBuffer = Append(oldBuffers.reqCodesBuffer,
                                                   [tpl |-> ")"])]
    /\ \E exists \in BOOLEAN :
          /\ out' = [out EXCEPT !.existed = IF exists THEN "yes" ELSE "no",
                                !.state = IF exists THEN "old" ELSE "absent"]
          /\ IF Protected(exists)
             THEN /\ logged' = Append(logged,
                         "client.go exists if you want to overwrite try -o flag")
                  /\ exit' = "zero"
                  /\ UNCHANGED pc
             ELSE pc' = "create" /\ UNCHANGED <<exit, logged>>
    /\ UNCHANGED <<src, protocol, overwrite, idx, wlNames, goIface, fileBuffer>>

\* os.Create(dest): the file is created or truncated, or the run ends
Create ==
    /\ Running /\ pc = "create"
    /\ UNCHANGED <<caseVars, runVars>>
    /\ \E ok \in BOOLEAN :
          IF ok
          THEN /\ out' = [out EXCEPT !.state = "empty", !.data = <<>>,
                                     !.creates = out.creates + 1]
               /\ pc' = "write"
               /\ UNCHANGED <<exit, logged>>
          ELSE Fatal("Cannot create file") /\ UNCHANGED <<out, pc>>
    /\ UNCHANGED <<src, protocol, overwrite, idx, wlNames, goIface, fileBuffer,
                   oldBuffers>>

\* what the buffers hold, in the order they are written to the file
Generated ==
    IF src = "wl-scanner" THEN fileBuffer
    ELSE oldBuffers.constBuffer \o oldBuffers.reqCodesBuffer \o oldBuffers.ifaceBuffer

\* fileBuffer.WriteTo(out), or the three WriteTo and file.Close() of scanner.go;
\* the error WriteTo returns is dropped, so a failed write goes unnoticed
Write ==
    /\ Running /\ pc = "write"
    /\ UNCHANGED <<caseVars, runVars>>
    /\ \E ok \in BOOLEAN :
          out' = [out EXCEPT !.state = IF ok THEN "written" ELSE "partial",
                             !.data = IF ok THEN Generated ELSE <<>>,
                             !.writes = out.writes + 1]
    /\ pc' = "fmt"
    /\ UNCHANGED <<src, protocol, overwrite, idx, wlNames, goIface, fileBuffer,
                   oldBuffers, exit, logged>>

\* fmtFile when cmd.Run() returns an error: log.Fatalf
FmtRunFailed == Fatal("Cannot run cmd")

\* fmtFile, and the return of main after it
FmtFile ==
    /\ Running /\ pc = "fmt"
    /\ UNCHANGED <<caseVars, runVars>>
    /\ \E found \in BOOLEAN, ran \in BOOLEAN :
          IF ~found
          THEN /\ logged' = Append(logged, "go executable cannot found")
               /\ exit' = "zero"
               /\ UNCHANGED out
          ELSE IF ran
          THEN /\ out' = [out EXCEPT !.state = IF out.state = "written"
                                                    THEN "formatted" ELSE out.state,
                                     !.fmtRuns = out.fmtRuns + 1]
               /\ exit' = "zero"
               /\ UNCHANGED logged
          ELSE /\ out' = [out EXCEPT !.fmtRuns = out.fmtRuns + 1]
               /\ FmtRunFailed
    /\ pc' = "done"
    /\ UNCHANGED <<src, protocol, overwrite, idx, wlNames, goIface, fileBuffer,
                   oldBuffers>>

-----------------------------------------------------------------------------
(* The protocols the compiler is run on                                    *)

MaxIfaces == 2
MaxEvents == 2
MaxReqs == 2
MaxArgs == 2

DigitChars == <<"1","2","3","4","5","6","7","8","9">>

\* "wl_a", "b_c", "wl_c", "d_c", ...: every other name is in the wl_ namespace
IfaceName(i) ==
    IF i % 2 = 1 THEN <<"w", "l", "_", LowerLetters[i]>>
    ELSE <<LowerLetters[i], "_", "c">>

ReqName(i) == <<"r", "e", "q", "_", DigitChars[i]>>
EvName(i)  == <<"e", "v", "_", DigitChars[i]>>
ArgName(i) == <<"a", "_", DigitChars[i]>>

NameWlSeat == <<"w","l","_","s","e","a","t">>

MkArg(k, type, interface, enum) ==
    [Name |-> ArgName(k), Type |-> type, Interface |-> interface, Enum |-> enum]

\* the sequences of at most n elements of S
SeqsUpTo(S, n) == UNION {[1..k -> S] : k \in 0..n}

\* those without a repeated element
DistinctSeqs(S, n) ==
    {q \in SeqsUpTo(S, n) : \A i, j \in 1..Len(q) : i # j => q[i] # q[j]}

OneEnum == <<[Name    |-> <<"k">>,
              Entries |-> <<[Name |-> <<"k", "_", "1">>, Value |-> "0x1"]>>]>>

\* several interfaces: interface i has one request that takes a wl_seat, nev
\* events that carry the interface after i, and one enum; every interface of a
\* protocol has the same number of events
WideIface(i, nev) ==
    [Name     |-> IfaceName(i),
     Requests |-> <<[Name |-> ReqName(1),
                     Args |-> <<MkArg(1, "object", NameWlSeat, <<>>)>>]>>,
     Events   |-> [k \in 1..nev |->
                      [Name |-> EvName(k),
                       Args |-> <<MkArg(1, "new_id", IfaceName((i % MaxIfaces) + 1),
                                        <<>>)>>]],
     Enums    |-> OneEnum]

WideIfaceLists ==
    {[k \in 1..Len(q) |-> WideIface(q[k], nev)] :
        q \in DistinctSeqs(1..MaxIfaces, MaxIfaces) \ {<<>>}, nev \in 0..MaxEvents}

\* two interfaces that differ in their number of events
MixedIfaceLists ==
    {<<WideIface(1, a), WideIface(2, b)>> : a, b \in 0..MaxEvents} \ WideIfaceLists

\* one interface whose requests and events come in every order
OrderIface(rs, es) ==
    [Name     |-> IfaceName(1),
     Requests |-> [k \in 1..Len(rs) |->
                      [Name |-> ReqName(rs[k]),
                       Args |-> IF rs[k] = 1 THEN <<MkArg(1, "int", <<>>, <<>>)>>
                                ELSE <<>>]],
     Events   |-> [k \in 1..Len(es) |->
                      [Name |-> EvName(es[k]),
                       Args |-> IF es[k] = 1
                                THEN <<MkArg(1, "int", <<>>, <<>>),
                                       MkArg(2, "string", <<>>, <<>>)>>
                                ELSE <<>>]],
     Enums    |-> <<>>]

OrderIfaceLists ==
    {<<OrderIface(rs, es)>> : rs \in DistinctSeqs(1..MaxReqs, MaxReqs),
                              es \in DistinctSeqs(1..MaxEvents, MaxEvents)}

\* the Args of one request or event: every kind of Arg.  IfaceName(1) is the
\* interface itself, IfaceName(2) is declared nowhere.
ArgKinds ==
    {[Type |-> "int", Interface |-> <<>>, Enum |-> <<>>],
     [Type |-> "new_id", Interface |-> <<>>, Enum |-> <<>>],
     [Type |-> "object", Interface |-> <<>>, Enum |-> <<>>]}
    \cup {[Type |-> t, Interface |-> IfaceName(i), Enum |-> <<>>] :
             t \in {"new_id", "object"}, i \in 1..2}

\* a uint with an enum attribute: a bare name, "interface.enum", and a
\* reference of three parts
EnumKinds ==
    {[Type |-> "uint", Interface |-> <<>>, Enum |-> e] :
        e \in {<<"k">>, <<"a", ".", "k">>, <<"a", ".", "b", ".", "k">>}}

ArgsOf(kinds) ==
    [k \in 1..Len(kinds) |->
        MkArg(k, kinds[k].Type, kinds[k].Interface, kinds[k].Enum)]

\* requests whose typed new_id follows other Args
SampleArgLists ==
    {ArgsOf(<<[Type |-> "new_id", Interface |-> <<>>, Enum |-> <<>>],
              [Type |-> "new_id", Interface |-> IfaceName(1), Enum |-> <<>>],
              [Type |-> "object", Interface |-> IfaceName(1), Enum |-> <<>>]>>),
     ArgsOf(<<[Type |-> "int", Interface |-> <<>>, Enum |-> <<>>],
              [Type |-> "int", Interface |-> <<>>, Enum |-> <<>>],
              [Type |-> "new_id", Interface |-> IfaceName(1), Enum |-> <<>>]>>)}

\* an enum Arg alone and after an int
EnumArgLists ==
    {ArgsOf(<<e>>) : e \in EnumKinds}
    \cup {ArgsOf(<<[Type |-> "int", Interface |-> <<>>, Enum |-> <<>>], e>>) :
              e \in EnumKinds}

ArgLists ==
    {ArgsOf(kinds) : kinds \in SeqsUpTo(ArgKinds, MaxArgs)}
        \cup SampleArgLists \cup EnumArgLists

ArgsIface(args) ==
    [Name     |-> IfaceName(1),
     Requests |-> <<[Name |-> ReqName(1), Args |-> args]>>,
     Events   |-> <<[Name |-> EvName(1), Args |-> args]>>,
     Enums    |-> <<>>]

ArgsIfaceLists == {<<ArgsIface(args)>> : args \in ArgLists}

Protocols ==
    {[Name |-> n, Interfaces |-> ifs] :
        n \in {"wayland", "ext"},
        ifs \in WideIfaceLists \cup MixedIfaceLists \cup OrderIfaceLists
                    \cup ArgsIfaceLists}

-----------------------------------------------------------------------------
(* The compiler: one run of main                                           *)

CaseIdle == name = <<>> /\ cased = <<>>
RunIdle == handlers = <<>> /\ mu = <<>> /\ gs = <<>>

Init ==
    /\ src \in {"wl-scanner", "scanner"}
    /\ overwrite \in (IF src = "scanner" THEN BOOLEAN ELSE {FALSE})
    /\ protocol \in Protocols
    /\ pc = "start" /\ idx = 1
    /\ wlNames = EmptyMap
    /\ goIface = NoGoIface
    /\ fileBuffer = <<>>
    /\ oldBuffers = NoBuffers
    /\ out = Untouched
    /\ exit = "running"
    /\ logged = <<>>
    /\ CaseIdle /\ RunIdle

Next ==
    \/ Load \/ Seed \/ Register \/ Header
    \/ ProcessEvents \/ Constructor \/ ProcessRequests \/ ProcessEnums
    \/ Stat \/ Create \/ Write \/ FmtFile

Spec == Init /\ [][Next]_vars

-----------------------------------------------------------------------------
(* The name casing functions on one native name                            *)

MaxNameLen == 4

CaseAlphabet == {"w", "l", "_", "a", "2"}

NameSomeThing == <<"w","l","_","s","o","m","e","_","t","h","i","n","g">>

NativeNames ==
    SeqsUpTo(CaseAlphabet, MaxNameLen)
        \cup {NameSomeThing, TrimPrefix(NameSomeThing, WlPrefix)}
        \cup {inheritedNames[i] : i \in 1..Len(inheritedNames)}

CompilerIdle ==
    /\ src = "" /\ protocol = <<>> /\ overwrite = FALSE /\ idx = 0
    /\ goIface = NoGoIface /\ fileBuffer = <<>> /\ oldBuffers = NoBuffers
    /\ out = Untouched /\ exit = "running" /\ logged = <<>>

InitCase ==
    /\ name \in NativeNames
    /\ cased = <<>>
    /\ wlNames = EmptyMap
    /\ pc = "case"
    /\ CompilerIdle /\ RunIdle

CaseFrame ==
    UNCHANGED <<src, protocol, overwrite, pc, idx, goIface, fileBuffer, oldBuffers,
                out, exit, logged, name, runVars>>

\* caseAndRegister(name)
RegisterName ==
    /\ pc = "case" /\ name \notin DOMAIN wlNames
    /\ wlNames' = caseAndRegister(wlNames, name)
    /\ UNCHANGED cased /\ CaseFrame

\* caseAndRegister("wl_" + name)
RegisterPrefixed ==
    /\ pc = "case" /\ (WlPrefix \o name) \notin DOMAIN wlNames
    /\ wlNames' = caseAndRegister(wlNames, WlPrefix \o name)
    /\ UNCHANGED cased /\ CaseFrame

\* snakeCase(name) and snakeCase("wl_" + name)
SnakeName ==
    /\ pc = "case" /\ cased = <<>>
    /\ cased' = <<snakeCase(name), snakeCase(WlPrefix \o name)>>
    /\ UNCHANGED wlNames /\ CaseFrame

NextCase == RegisterName \/ RegisterPrefixed \/ SnakeName

SpecCase == InitCase /\ [][NextCase]_vars

-----------------------------------------------------------------------------
(* The generated code at run time: one instance p of the type generated    *)
(* for an interface with events, and goroutines that call AddHandler,      *)
(* RemoveHandler and Dispatch on it.  The steps are those of the template  *)
(* text; the opcodes, list names and decode statements are the ones the    *)
(* templates were rendered with.                                           *)

MaxListLen == 2

\* two goroutines, each making one call after the other
Goroutines == {1, 2}

\* Handler values: two that differ, and in NilHandler the nil interface value
Handlers == {"h1", "h2"}
NilHandler == "nil"

\* the interface the instance is generated from: the events ev_1, with two
\* Args, and ev_2
RunWlIface == OrderIface(<<>>, <<1, 2>>)

RunEvents == Len(RunWlIface.Events)

RunNames == caseAndRegister(EmptyMap, RunWlIface.Name)

RunGoIface ==
    [Name     |-> Lookup(RunNames, RunWlIface.Name),
     Events   |-> GoEventsOf(RunNames, Lookup(RunNames, RunWlIface.Name), RunWlIface),
     Requests |-> <<>>]

\* the generated declarations the goroutines execute
RunType == RenderType(RunGoIface)
RunDispatch == RenderDispatch(RunGoIface)
RunAddRemove == [k \in 1..RunEvents |-> RenderAddRemoveHandler(RunGoIface.Events[k])]

\* the fields of p that hold handler lists
RunLists == {RunType.lists[k] : k \in 1..Len(RunType.lists)}

\* what the wire carries for the event at position k: one value per Arg
Payload(k) == [j \in 1..Len(RunWlIface.Events[k].Args) |-> "wire" \o ToString(j)]

\* a goroutine that is in no call; stack holds the frame of the Dispatch
\* whose handler made the present call, when a handler made it
IdleG == [pc |-> "idle", op |-> "", k |-> 0, h |-> NilHandler, opcode |-> 0,
          list |-> "", i |-> 0, snap |-> <<>>, rec |-> <<>>, invoked |-> <<>>,
          stack |-> <<>>]

MuFree == [writer |-> 0, held |-> FALSE, readers |-> [g \in Goroutines |-> 0]]

InitRun ==
    /\ handlers = [l \in RunLists |-> <<>>]
    /\ mu = MuFree
    /\ gs = [g \in Goroutines |-> IdleG]
    /\ pc = "run" /\ wlNames = EmptyMap
    /\ CompilerIdle /\ CaseIdle

RunFrame == UNCHANGED <<compVars, caseVars>>

\* the generated methods are running: with handlers that only return
\* ("run"), or with handlers that may call back into the instance ("nest")
RunMode == pc \in {"run", "nest"}

\* how many goroutines are inside AddHandler on list l
Adding(l) == Cardinality({g \in Goroutines : gs[g].op = "add" /\ gs[g].list = l
                                              /\ gs[g].pc \in {"lock", "wait", "crit"}})

\* p.Add<Event>Handler(h) is called: "if h != nil"
CallAddHandler(g) ==
    /\ RunMode /\ gs[g].pc = "idle"
    /\ \E k \in 1..RunEvents, h \in Handlers \cup {NilHandler} :
          /\ Len(handlers[RunAddRemove[k].list]) + Adding(RunAddRemove[k].list)
                 < MaxListLen
          /\ gs' = [gs EXCEPT ![g] = [IdleG EXCEPT
                        !.op = "add", !.k = k, !.h = h,
                        !.list = RunAddRemove[k].list,
                        !.pc = IF h # NilHandler THEN "lock" ELSE "ret"]]
    /\ UNCHANGED <<handlers, mu>> /\ RunFrame

\* p.Remove<Event>Handler(h) is called
CallRemoveHandler(g) ==
    /\ RunMode /\ gs[g].pc = "idle"
    /\ \E k \in 1..RunEvents, h \in Handlers \cup {NilHandler} :
          gs' = [gs EXCEPT ![g] = [IdleG EXCEPT
                     !.op = "remove", !.k = k, !.h = h,
                     !.list = RunAddRemove[k].list, !.pc = "lock"]]
    /\ UNCHANGED <<handlers, mu>> /\ RunFrame

\* the case of the switch that matches opcode: 0 when none does
MatchCase(opcode) ==
    IF \E k \in 1..Len(RunDispatch.cases) : RunDispatch.cases[k].opcode = opcode
    THEN CHOOSE k \in 1..Len(RunDispatch.cases) :
             /\ RunDispatch.cases[k].opcode = opcode
             /\ \A j \in 1..(k-1) : RunDispatch.cases[j].opcode # opcode
    ELSE 0

\* p.Dispatch(event) is called: "switch event.opcode"
CallDispatch(g) ==
    /\ RunMode /\ gs[g].pc = "idle"
    /\ \E opcode \in 0..RunEvents :
          LET k == MatchCase(opcode)
          IN  gs' = [gs EXCEPT ![g] = [IdleG EXCEPT
                         !.op = "dispatch", !.opcode = opcode, !.k = k,
                         !.list = IF k = 0 THEN "" ELSE RunDispatch.cases[k].list,
                         !.pc = IF k = 0 THEN "ret" ELSE "len"]]
    /\ UNCHANGED <<handlers, mu>> /\ RunFrame

\* p.mu.Lock(), first half: the goroutine takes the writers' mutex and
\* announces itself; from now on RLock blocks
MuLock(g) ==
    /\ RunMode /\ gs[g].pc = "lock"
    /\ mu.writer = 0
    /\ mu' = [mu EXCEPT !.writer = g]
    /\ gs' = [gs EXCEPT ![g].pc = "wait"]
    /\ UNCHANGED handlers /\ RunFrame

\* what the second half of p.mu.Lock() waits for
ReadersGone == \A r \in Goroutines : mu.readers[r] = 0

\* p.mu.Lock(), second half: the readers have left
MuLockAcquire(g) ==
    /\ RunMode /\ gs[g].pc = "wait"
    /\ mu.writer = g /\ ReadersGone
    /\ mu' = [mu EXCEPT !.held = TRUE]
    /\ gs' = [gs EXCEPT ![g].pc = "crit"]
    /\ UNCHANGED handlers /\ RunFrame

\* p.<list> = append(p.<list>, h)
AddAppend(g) ==
    /\ RunMode /\ gs[g].pc = "crit" /\ gs[g].op = "add"
    /\ handlers' = [handlers EXCEPT ![gs[g].list] = Append(@, gs[g].h)]
    /\ gs' = [gs EXCEPT ![g].pc = "unlock"]
    /\ UNCHANGED mu /\ RunFrame

\* a faulty variant of RemoveLoop: every element identical to h is removed
RECURSIVE RemoveLoopAll(_, _, _)
RemoveLoopAll(list, h, i) ==
    IF i > Len(list) THEN list
    ELSE IF list[i] = h
    THEN RemoveLoopAll(SubSeq(list, 1, i - 1) \o SubSeq(list, i + 1, Len(list)), h, i)
    ELSE RemoveLoopAll(list, h, i + 1)

\* "for i, e := range list": at the first e == h,
\* list = append(list[:i], list[i+1:]...) and break
RECURSIVE RemoveLoop(_, _, _)
RemoveLoop(list, h, i) ==
    IF i > Len(list) THEN list
    ELSE IF list[i] = h
    THEN SubSeq(list, 1, i - 1) \o SubSeq(list, i + 1, Len(list))
    ELSE RemoveLoop(list, h, i + 1)

\* the loop of RemoveHandler
RemoveScan(g) ==
    /\ RunMode /\ gs[g].pc = "crit" /\ gs[g].op = "remove"
    /\ handlers' = [handlers EXCEPT ![gs[g].list] = RemoveLoop(@, gs[g].h, 1)]
    /\ gs' = [gs EXCEPT ![g].pc = "unlock"]
    /\ UNCHANGED mu /\ RunFrame

\* p.mu.Unlock(), deferred in RemoveHandler
MuUnlock(g) ==
    /\ RunMode /\ gs[g].pc = "unlock"
    /\ mu' = [mu EXCEPT !.writer = 0, !.held = FALSE]
    /\ gs' = [gs EXCEPT ![g].pc = "ret"]
    /\ UNCHANGED handlers /\ RunFrame

\* the decode statements run in order, each taking the next value of the wire:
\* the record maps the field the j-th statement assigns to the j-th value
DecodeRecord(decode, payload) ==
    [f \in {decode[j].field : j \in 1..Len(decode)} |->
        payload[CHOOSE j \in 1..Len(decode) :
                    /\ decode[j].field = f
                    /\ \A j2 \in (j+1)..Len(decode) : decode[j2].field # f]]

\* Dispatch: "if len(p.<list>) > 0", read before p.mu.RLock(); when it holds,
\* "ev := ...Event{}" and the decode statements
DispatchLen(g) ==
    /\ RunMode /\ gs[g].pc = "len"
    /\ IF Len(handlers[gs[g].list]) > 0
       THEN gs' = [gs EXCEPT ![g].pc = "rlock",
                             ![g].rec = DecodeRecord(RunDispatch.cases[gs[g].k].decode,
                                                     Payload(gs[g].opcode + 1))]
       ELSE gs' = [gs EXCEPT ![g].pc = "ret"]
    /\ UNCHANGED <<handlers, mu>> /\ RunFrame

\* p.mu.RLock(): blocks while a writer holds the lock or waits for it
MuRLock(g) ==
    /\ RunMode /\ gs[g].pc = "rlock"
    /\ mu.writer = 0
    /\ mu' = [mu EXCEPT !.readers[g] = @ + 1]
    /\ gs' = [gs EXCEPT ![g].pc = "range"]
    /\ UNCHANGED handlers /\ RunFrame

\* "for _, h := range p.<list>": the range expression is evaluated once
DispatchRange(g) ==
    /\ RunMode /\ gs[g].pc = "range"
    /\ gs' = [gs EXCEPT ![g].pc = "handle", ![g].snap = handlers[gs[g].list],
                        ![g].i = 1]
    /\ UNCHANGED <<handlers, mu>> /\ RunFrame

\* one pass of the loop, h.Handle(ev), or its end
DispatchHandle(g) ==
    /\ RunMode /\ gs[g].pc = "handle"
    /\ IF gs[g].i <= Len(gs[g].snap)
       THEN gs' = [gs EXCEPT ![g].invoked =
                       Append(@, [h |-> gs[g].snap[gs[g].i], ev |-> gs[g].rec]),
                             ![g].i = @ + 1]
       ELSE gs' = [gs EXCEPT ![g].pc = "runlock"]
    /\ UNCHANGED <<handlers, mu>> /\ RunFrame

\* p.mu.RUnlock()
MuRUnlock(g) ==
    /\ RunMode /\ gs[g].pc = "runlock"
    /\ mu' = [mu EXCEPT !.readers[g] = @ - 1]
    /\ gs' = [gs EXCEPT ![g].pc = "ret"]
    /\ UNCHANGED handlers /\ RunFrame

\* the call returns: to the caller of the goroutine, or into the loop of the
\* Dispatch whose handler made the call
Return(g) ==
    /\ RunMode /\ gs[g].pc = "ret"
    /\ gs' = [gs EXCEPT ![g] = IF gs[g].stack = <<>> THEN IdleG
                                ELSE Head(gs[g].stack)]
    /\ UNCHANGED <<handlers, mu>> /\ RunFrame

NextRun ==
    \E g \in Goroutines :
        \/ CallAddHandler(g) \/ CallRemoveHandler(g) \/ CallDispatch(g)
        \/ MuLock(g) \/ MuLockAcquire(g) \/ AddAppend(g) \/ RemoveScan(g)
        \/ MuUnlock(g)
        \/ DispatchLen(g) \/ MuRLock(g) \/ DispatchRange(g)
        \/ DispatchHandle(g) \/ MuRUnlock(g) \/ Return(g)

SpecRun == InitRun /\ [][NextRun]_vars

-----------------------------------------------------------------------------
(* The generated code with handlers that call back: h.Handle(ev) is code   *)
(* of the program that uses the generated package, and it may call         *)
(* AddHandler or RemoveHandler of the instance whose Dispatch invoked it,  *)
(* on the goroutine of that Dispatch.                                      *)

\* the goroutine that makes the calls
NestGoroutines == {1}

InitNest ==
    /\ handlers = [l \in RunLists |-> <<>>]
    /\ mu = MuFree
    /\ gs = [g \in Goroutines |-> IdleG]
    /\ pc = "nest" /\ wlNames = EmptyMap
    /\ CompilerIdle /\ CaseIdle

\* the frame of Dispatch while the handler at position i runs: the handler
\* has been invoked, and the loop goes on after it when it returns
InHandler(f) ==
    [f EXCEPT !.invoked = Append(@, [h |-> f.snap[f.i], ev |-> f.rec]),
              !.i = @ + 1]

\* h.Handle(ev) calls p.Add<Event>Handler(h2) and returns
HandlerCallsAdd(g) ==
    /\ pc = "nest" /\ gs[g].pc = "handle" /\ gs[g].stack = <<>>
    /\ gs[g].i <= Len(gs[g].snap)
    /\ \E k \in 1..RunEvents, h \in Handlers :
          /\ Len(handlers[RunAddRemove[k].list]) + Adding(RunAddRemove[k].list)
                 < MaxListLen
          /\ gs' = [gs EXCEPT ![g] = [IdleG EXCEPT
                        !.op = "add", !.k = k, !.h = h,
                        !.list = RunAddRemove[k].list, !.pc = "lock",
                        !.stack = <<InHandler(gs[g])>>]]
    /\ UNCHANGED <<handlers, mu>> /\ RunFrame

\* h.Handle(ev) calls p.Remove<Event>Handler(h2), h2 being h itself or
\* another handler, and returns
HandlerCallsRemove(g) ==
    /\ pc = "nest" /\ gs[g].pc = "handle" /\ gs[g].stack = <<>>
    /\ gs[g].i <= Len(gs[g].snap)
    /\ \E k \in 1..RunEvents, h \in Handlers :
          gs' = [gs EXCEPT ![g] = [IdleG EXCEPT
                     !.op = "remove", !.k = k, !.h = h,
                     !.list = RunAddRemove[k].list, !.pc = "lock",
                     !.stack = <<InHandler(gs[g])>>]]
    /\ UNCHANGED <<handlers, mu>> /\ RunFrame

\* a step of goroutine g
NestStep(g) ==
    \/ CallAddHandler(g) \/ CallRemoveHandler(g) \/ CallDispatch(g)
    \/ MuLock(g) \/ MuLockAcquire(g) \/ AddAppend(g) \/ RemoveScan(g)
    \/ MuUnlock(g)
    \/ DispatchLen(g) \/ MuRLock(g) \/ DispatchRange(g)
    \/ DispatchHandle(g) \/ HandlerCallsAdd(g) \/ HandlerCallsRemove(g)
    \/ MuRUnlock(g) \/ Return(g)

NextNest == \E g \in NestGoroutines : NestStep(g)

\* a goroutine that can take a step takes one: the Go scheduler runs every
\* goroutine that is not blocked
SpecNest == InitNest /\ [][NextNest]_vars /\ \A g \in NestGoroutines : WF_vars(NestStep(g))

-----------------------------------------------------------------------------
(* Properties of the generated code at run time, under SpecRun.            *)

\* the goroutines whose next step reads or writes a handler list of p
Writing == {g \in Goroutines : gs[g].pc = "crit"}
Reading == {g \in Goroutines : gs[g].pc \in {"len", "range", "handle"}}

\* C1: every access the generated code makes to a handler list, in
\* AddHandler, RemoveHandler and Dispatch, is made while the lock of the
\* instance is held: the writers hold it exclusively, Dispatch holds it shared.
\* Dispatch reads len(p.<list>) before p.mu.RLock(), so this does not hold.
C1_ListAccessUnderLock ==
    pc = "run" =>
        /\ \A g \in Writing : mu.writer = g /\ mu.held
        /\ \A g \in Reading : mu.readers[g] > 0

-----------------------------------------------------------------------------
(* Properties of the compiler, under Spec.                                 *)

Range(s) == {s[j] : j \in 1..Len(s)}

\* main is in its generation loop or past it
GenPhase ==
    pc \in {"events", "constructor", "requests", "enums", "stat", "create", "write",
            "fmt", "done"}

\* the generation loop has processed the events, the requests of interface i
EventsDone(i) ==
    GenPhase /\ (i < idx \/ (i = idx /\ pc \in {"constructor", "requests", "enums"}))
RequestsDone(i) == GenPhase /\ (i < idx \/ (i = idx /\ pc = "enums"))

\* the canonical name the declarations of interface i are generated under
RecvOf(i) == Str(Lookup(wlNames, protocol.Interfaces[i].Name))

\* the buffer the declarations of the interfaces are generated into
Declarations == IF src = "wl-scanner" THEN fileBuffer ELSE oldBuffers.ifaceBuffer

\* the generated methods of request k of interface i
ReqDecls(i, k) ==
    LET recv   == RecvOf(i)
        method == Str(CamelCase(protocol.Interfaces[i].Requests[k].Name))
    IN  {d \in Range(Declarations) :
            /\ d.tpl \in {"RequestTemplate", "request"}
            /\ d.recv = recv
            /\ d.method = method}

\* the opcodes a generated method sends: the number in its call, or in
\* scanner.go the values of the constant its call names
OpcodesOf(d) ==
    IF src = "wl-scanner" THEN {d.call.opcode}
    ELSE {c.value : c \in {e \in Range(oldBuffers.reqCodesBuffer) :
                             e.tpl = "reqCode" /\ e.name = d.call.opcode}}

\* the generated dispatch methods of interface i
DispatchDecls(i) ==
    LET recv == RecvOf(i)
    IN  {d \in Range(Declarations) :
            d.tpl = "InterfaceDispatchTemplate" /\ d.recv = recv}

\* the cases of a dispatch method that build the record of event j of interface i
CasesOf(d, i, j) ==
    LET record == RecvOf(i) \o Str(CamelCase(protocol.Interfaces[i].Events[j].Name))
                      \o "Event"
    IN  {c \in Range(d.cases) : c.record = record}

Swap(s, a, b) ==
    [k \in 1..Len(s) |-> IF k = a THEN s[b] ELSE IF k = b THEN s[a] ELSE s[k]]

\* the opcodes the compiler gives the requests reqs of interface i, by request
\* name
OpcodesByName(i, reqs) ==
    LET iface == [protocol.Interfaces[i] EXCEPT !.Requests = reqs]
    IN  IF src = "wl-scanner"
        THEN LET g == GoRequestsOf(wlNames, Lookup(wlNames, iface.Name), iface)
             IN  {<<g[k].Name, g[k].Order>> : k \in 1..Len(g)}
        ELSE LET r == interfaceRequests(wlNames, iface)
             IN  UNION {{<<d.method, c.value>> :
                            c \in {e \in Range(r.codes) : e.name = d.call.opcode}} :
                        d \in Range(r.decls)}

\* C2: the request at position k of an interface (counting from zero) is
\* generated with opcode k and the event at position j is matched by dispatch
\* case j, the two numberings independent of each other; swapping two requests
\* of the input swaps their opcodes and changes no other.
C2_OpcodeIsPosition ==
    pc \notin {"case", "run"} =>
    \A i \in 1..Len(protocol.Interfaces) :
        LET iface == protocol.Interfaces[i]
            before == OpcodesByName(i, iface.Requests)
            nameOf == [k \in 1..Len(iface.Requests) |->
                          IF src = "wl-scanner" THEN CamelCase(iface.Requests[k].Name)
                          ELSE Str(CamelCase(iface.Requests[k].Name))]
        IN  /\ \A k \in 1..Len(iface.Requests) :
                  LET ds == ReqDecls(i, k)
                  IN  /\ RequestsDone(i) => ds # {}
                      /\ \A d \in ds : OpcodesOf(d) = {k - 1}
            /\ src = "wl-scanner" =>
                  LET ds == DispatchDecls(i)
                  IN  /\ (EventsDone(i) /\ Len(iface.Events) > 0) => ds # {}
                      /\ \A d \in ds, j \in 1..Len(iface.Events) :
                            LET cs == CasesOf(d, i, j)
                            IN  /\ Len(d.cases) = Len(iface.Events)
                                /\ cs # {}
                                /\ \A c \in cs : c.opcode = j - 1
            /\ (pc = "enums" /\ i = idx) =>
                  /\ \A k \in 1..Len(iface.Requests) : <<nameOf[k], k - 1>> \in before
                  /\ \A a \in 1..Len(iface.Requests) :
                        \A b \in (a + 1)..Len(iface.Requests) :
                            LET after == OpcodesByName(i, Swap(iface.Requests, a, b))
                            IN  /\ Cardinality(after) = Cardinality(before)
                                /\ \A k \in 1..Len(iface.Requests) :
                                      <<nameOf[k],
                                        Swap([n \in 1..Len(iface.Requests) |-> n - 1],
                                             a, b)[k]>> \in after

\* a finished run of wl-scanner.go on an interface with two requests and two
\* events: the second request carries opcode 1, the second case matches 1
C2_Witness ==
    /\ src = "wl-scanner" /\ pc = "done" /\ exit = "zero"
    /\ \E i \in 1..Len(protocol.Interfaces) :
          /\ Len(protocol.Interfaces[i].Requests) = 2
          /\ Len(protocol.Interfaces[i].Events) = 2
          /\ \E d \in Range(out.data) :
                d.tpl = "RequestTemplate" /\ d.recv = RecvOf(i) /\ d.call.opcode = 1
          /\ \E d \in Range(out.data) :
                /\ d.tpl = "InterfaceDispatchTemplate" /\ d.recv = RecvOf(i)
                /\ d.cases[2].opcode = 1

\* the Args of a that name an interface: an object or a new_id with an
\* interface attribute
RefArgs(args) ==
    {a \in Range(args) : a.Type \in {"object", "new_id"} /\ a.Interface # <<>>}

\* the Args the generation loop has gone through whose interface was never
\* registered in wlNames
UnresolvedDone ==
    UNION {
        UNION {{a \in RefArgs(protocol.Interfaces[i].Requests[k].Args) :
                   RequestsDone(i) /\ a.Interface \notin DOMAIN wlNames} :
               k \in 1..Len(protocol.Interfaces[i].Requests)}
        \cup
        UNION {{a \in RefArgs(protocol.Interfaces[i].Events[k].Args) :
                   EventsDone(i) /\ a.Interface \notin DOMAIN wlNames} :
               k \in 1..Len(protocol.Interfaces[i].Events)} :
        i \in 1..Len(protocol.Interfaces)}

\* C3: when an Arg names an interface that was never registered, the run ends
\* fatally instead of generating a declaration with an empty type name.
\* The compiler reads wlNames[arg.Interface] without looking at whether the
\* key is there and goes on with the empty string, so this does not hold.
C3_UnresolvedRefIsFatal ==
    (pc \notin {"case", "run"} /\ UnresolvedDone # {}) => exit = "fatal"

\* the names an Arg may refer to: the interfaces of the protocol and, for
\* wl-scanner.go on a protocol other than "wayland", the inherited names
\* (scanner.go has no table of inherited names)
DeclaredNames == {protocol.Interfaces[i].Name : i \in 1..Len(protocol.Interfaces)}
InheritedSet == Range(inheritedNames)
ForeignNames ==
    IF src = "wl-scanner" /\ protocol.Name # "wayland" THEN InheritedSet ELSE {}

\* the canonical name of every inherited name
InheritedCanonical == [n \in InheritedSet |-> CamelCase(n)]

\* the generated record types of event k of interface i
EventDecls(i, k) ==
    LET type == RecvOf(i) \o Str(CamelCase(protocol.Interfaces[i].Events[k].Name))
                    \o "Event"
    IN  {d \in Range(Declarations) :
            d.tpl \in {"EventTemplate", "event"} /\ d.type = type}

\* C4: registration is over before the first declaration is generated: from
\* the start of the generation loop on, wlNames holds every interface of the
\* protocol and, when the protocol is not "wayland", every inherited name; so
\* an Arg of interface A that names interface B is generated with the
\* canonical name of B, whether B is declared before A or after it.
C4_RegisteredBeforeGeneration ==
    (pc \notin {"case", "run"} /\ GenPhase) =>
        /\ \A n \in DeclaredNames : n \in DOMAIN wlNames /\ wlNames[n] = CamelCase(n)
        /\ \A n \in ForeignNames :
              n \in DOMAIN wlNames /\ wlNames[n] = InheritedCanonical[n]
        /\ \A i \in 1..Len(protocol.Interfaces) :
              LET iface == protocol.Interfaces[i]
              IN  /\ \A k \in 1..Len(iface.Events) :
                        LET ds == EventDecls(i, k)
                        IN  /\ EventsDone(i) => ds # {}
                            /\ \A d \in ds, a \in 1..Len(iface.Events[k].Args) :
                                  LET arg == iface.Events[k].Args[a]
                                  IN  (arg \in RefArgs(iface.Events[k].Args)
                                       /\ arg.Interface \in DeclaredNames \cup ForeignNames)
                                      => d.fields[a] = Str(CamelCase(arg.Name)) \o " *"
                                                         \o Str(CamelCase(arg.Interface))
                  /\ \A k \in 1..Len(iface.Requests) :
                        \A d \in ReqDecls(i, k) :
                            LET args == iface.Requests[k].Args
                            IN  (/\ Len(args) = 1 /\ args[1].Type = "object"
                                 /\ args[1].Interface \in DeclaredNames \cup ForeignNames)
                                => d.params = Str(args[1].Name) \o " *"
                                                \o Str(CamelCase(args[1].Interface))

\* a forward reference: the events of the first interface, already generated,
\* carry the interface declared after it, and the protocol is not "wayland"
C4_Witness ==
    /\ src = "wl-scanner" /\ protocol.Name # "wayland"
    /\ pc = "constructor" /\ idx = 1
    /\ Len(protocol.Interfaces) = 2
    /\ \E k \in 1..Len(protocol.Interfaces[1].Events) :
          /\ protocol.Interfaces[1].Events[k].Args[1].Interface
                 = protocol.Interfaces[2].Name
          /\ \E d \in EventDecls(1, k) :
                d.fields[1] = "A1 *" \o Str(CamelCase(protocol.Interfaces[2].Name))

\* the positions of the new_id Args of a request
NewIdArgs(args) == {a \in 1..Len(args) : args[a].Type = "new_id"}

\* the parameter list the compiler generates for a request of interface i
\* whose Args are args
ParamsText(i, args) ==
    LET req == [Name |-> ReqName(1), Args |-> args]
    IN  IF src = "wl-scanner"
        THEN GoRequestOf(wlNames, Lookup(wlNames, protocol.Interfaces[i].Name), 0,
                         req).Params
        ELSE requestArgs(wlNames, Lookup(wlNames, protocol.Interfaces[i].Name),
                         req).text

\* the texts that are not empty, with commas between them
RECURSIVE CommaJoin(_)
CommaJoin(parts) ==
    IF parts = <<>> THEN ""
    ELSE LET rest == CommaJoin(Tail(parts))
         IN  IF Head(parts) = "" THEN rest
             ELSE IF rest = "" THEN Head(parts)
             ELSE Head(parts) \o "," \o rest

\* what a generated method constructs: nothing, or an object of type x that it
\* also returns
ConstructsNothing(d) ==
    IF src = "wl-scanner" THEN d.construct = "" /\ ~d.retObject
    ELSE d.construct = <<>> /\ d.hasRet = ""
ConstructsAndReturns(d, x) ==
    IF src = "wl-scanner"
    THEN /\ d.construct = "New" \o x /\ d.retObject
         /\ d.returns = "(*" \o x \o " , error)"
    ELSE /\ d.construct = <<"ret := New" \o x \o "(p.Connection())">>
         /\ d.hasRet = "ret,"
         /\ d.returns = "( *" \o x \o ",error )"

\* C5: a request whose one new_id Arg names an interface is generated as a
\* method that constructs an object of that interface, has no parameter for
\* the Arg and returns the object and an error; a request whose one new_id Arg
\* names no interface gets the three parameters iface, version and the handle
\* in the place of the Arg, constructs nothing and returns only an error; a
\* request without a new_id Arg constructs nothing and returns only an error.
C5_NewIdBranching ==
    pc \notin {"case", "run"} =>
    \A i \in 1..Len(protocol.Interfaces) :
      \A k \in 1..Len(protocol.Interfaces[i].Requests) :
        LET args == protocol.Interfaces[i].Requests[k].Args
            ids  == NewIdArgs(args)
            ds   == ReqDecls(i, k)
        IN  /\ (src = "wl-scanner" /\ RequestsDone(i)) => ds # {}
            /\ \A d \in ds :
                  /\ ids = {} => ConstructsNothing(d) /\ d.returns = "error"
                  /\ \A a \in ids :
                        (ids = {a} /\ args[a].Interface # <<>>) =>
                            /\ ConstructsAndReturns(d,
                                   Str(Lookup(wlNames, args[a].Interface)))
                            /\ d.params = ParamsText(i,
                                   SubSeq(args, 1, a - 1) \o SubSeq(args, a + 1, Len(args)))
                  /\ \A a \in ids :
                        (ids = {a} /\ args[a].Interface = <<>>) =>
                            /\ ConstructsNothing(d) /\ d.returns = "error"
                            /\ d.params = CommaJoin(
                                   <<ParamsText(i, SubSeq(args, 1, a - 1)),
                                     "iface string", "version uint32",
                                     Str(args[a].Name) \o " Proxy",
                                     ParamsText(i, SubSeq(args, a + 1, Len(args)))>>)

\* the generated method of a request that takes an int and creates an object
\* of a registered interface
C5_Witness ==
    /\ src = "wl-scanner" /\ pc = "enums" /\ idx = 1
    /\ Len(protocol.Interfaces[1].Requests) = 1
    /\ LET args == protocol.Interfaces[1].Requests[1].Args
       IN  /\ Len(args) = 2 /\ args[1].Type = "int"
           /\ args[2].Type = "new_id" /\ args[2].Interface = protocol.Interfaces[1].Name
    /\ \E d \in ReqDecls(1, 1) :
          d.construct = "New" \o RecvOf(1) /\ d.params = "a_1 int32"

-----------------------------------------------------------------------------
(* Properties of Dispatch and RemoveHandler, under SpecRun.                *)

\* the list that Add<Event>Handler of the event at position pos appends to
EventList(pos) == RunAddRemove[pos].list

\* the record of the event at position pos: the field of its j-th Arg holds
\* the j-th value of the wire
ExpectedRecord(pos) ==
    LET args == RunWlIface.Events[pos].Args
        fieldOf(j) == Str(CamelCase(args[j].Name))
    IN  [f \in {fieldOf(j) : j \in 1..Len(args)} |->
            Payload(pos)[CHOOSE j \in 1..Len(args) : fieldOf(j) = f]]

\* the expected record of every event
ExpectedRecords == [pos \in 1..RunEvents |-> ExpectedRecord(pos)]

\* the handlers a call of Dispatch has invoked so far, in order
InvokedHandlers(g) == [n \in 1..Len(gs[g].invoked) |-> gs[g].invoked[n].h]

\* what holds during a call of Dispatch with opcode k
DispatchState(g) ==
    LET pos == gs[g].opcode + 1
    IN  IF pos \notin 1..Len(RunWlIface.Events)
        THEN gs[g].pc = "ret" /\ gs[g].invoked = <<>>
        ELSE /\ gs[g].list = EventList(pos)
             /\ \A n \in 1..Len(gs[g].invoked) :
                   gs[g].invoked[n].ev = ExpectedRecords[pos]
             /\ gs[g].pc \in {"len", "rlock", "range"} => gs[g].invoked = <<>>
             /\ gs[g].pc = "handle" =>
                   /\ Len(gs[g].invoked) <= Len(handlers[EventList(pos)])
                   /\ InvokedHandlers(g) =
                          SubSeq(handlers[EventList(pos)], 1, Len(gs[g].invoked))
             /\ gs[g].pc = "runlock" => InvokedHandlers(g) = handlers[EventList(pos)]

\* a step of a call of Dispatch
DispatchStep(g) == gs[g].op = "dispatch" /\ gs'[g] # gs[g]

\* the step of Add<Event>Handler that writes the list
AddStep(g) == gs[g].op = "add" /\ gs[g].pc = "crit" /\ gs'[g].pc = "unlock"

\* C6: Dispatch of an event with opcode k invokes exactly the handlers that
\* are registered for the event at position k, each once and in the order
\* they were added, with a record decoded in the order of the Args; it invokes
\* no handler of another event; for an opcode that matches no event it
\* invokes nothing and returns; and no step of it changes a handler list.
C6_DispatchInvokesRegistered ==
    /\ [](pc = "run" =>
            \A g \in Goroutines : gs[g].op = "dispatch" => DispatchState(g))
    /\ [][pc = "run" =>
            \A g \in Goroutines :
                /\ DispatchStep(g) => handlers' = handlers
                /\ AddStep(g) =>
                      handlers' = [handlers EXCEPT ![gs[g].list] = Append(@, gs[g].h)]
         ]_vars

\* Dispatch of the first event, which has two Args, has invoked the two
\* different handlers of its list, while the list of the other event holds a
\* handler too
C6_Witness ==
    /\ pc = "run"
    /\ \E g \in Goroutines :
          /\ gs[g].op = "dispatch" /\ gs[g].pc = "runlock" /\ gs[g].opcode = 0
          /\ Len(gs[g].invoked) = 2
          /\ gs[g].invoked[1].h # gs[g].invoked[2].h
          /\ DOMAIN gs[g].invoked[1].ev = {"A1", "A2"}
          /\ \E l \in RunLists : l # gs[g].list /\ handlers[l] # <<>>

\* the step of Remove<Event>Handler that scans the list
RemoveStep(g) == gs[g].op = "remove" /\ gs[g].pc = "crit" /\ gs'[g].pc = "unlock"

\* new is old without its first element identical to h, or old itself when no
\* element is
FirstRemoved(old, new, h) ==
    IF \A n \in 1..Len(old) : old[n] # h THEN new = old
    ELSE \E n \in 1..Len(old) :
            /\ old[n] = h
            /\ \A m \in 1..(n - 1) : old[m] # h
            /\ Len(new) = Len(old) - 1
            /\ \A m \in 1..(n - 1) : new[m] = old[m]
            /\ \A m \in n..Len(new) : new[m] = old[m + 1]

-----------------------------------------------------------------------------
(* Properties of the end of main, under Spec, and of the casing functions, *)
(* under SpecCase.                                                         *)

LastLogged == IF logged = <<>> THEN "" ELSE logged[Len(logged)]

\* the messages of fmtFile
FormatFailures == {"go executable cannot found", "Cannot run cmd"}

\* C8: a failure of the formatting step, the go executable not found or
\* "go fmt" returning an error, is only logged: the run does not end fatally.
\* fmtFile ends the run with log.Fatalf when cmd.Run() returns an error, so
\* this does not hold.
C8_FormatFailureOnlyLogged ==
    (pc = "done" /\ LastLogged \in FormatFailures) => exit = "zero"

\* the name n without one leading "wl_"
Stripped(n) ==
    IF Len(n) >= 3 /\ n[1] = "w" /\ n[2] = "l" /\ n[3] = "_"
    THEN [i \in 1..(Len(n) - 3) |-> n[i + 3]] ELSE n

\* the characters of s that are not underscores, those at the positions in
\* caps in upper case
RECURSIVE Capitalised(_, _, _)
Capitalised(s, caps, i) ==
    IF i > Len(s) THEN <<>>
    ELSE (IF s[i] = "_" THEN <<>>
          ELSE IF i \in caps THEN <<ToTitleRune(s[i])>> ELSE <<s[i]>>)
             \o Capitalised(s, caps, i + 1)

\* the positions of s that follow an underscore
AfterUnderscore(s) == {i \in 2..Len(s) : s[i - 1] = "_"}

\* PascalCase and its lower-first-letter variant of a snake_case name
PascalCase(n) ==
    LET s == Stripped(n) IN Capitalised(s, {1} \cup AfterUnderscore(s), 1)
LowerFirstCase(n) ==
    LET s == Stripped(n) IN Capitalised(s, AfterUnderscore(s), 1)

\* C9: the canonical name of a native name is its PascalCase form without the
\* leading "wl_" ("wl_some_thing" gives "SomeThing"); for a name n that does
\* not start with "wl_", n and "wl_" + n are registered under the same
\* canonical name; the lower-first-letter variant strips the same prefix.
C9_CanonicalName ==
    pc = "case" =>
        /\ \A n \in DOMAIN wlNames : wlNames[n] = PascalCase(n)
        /\ NameSomeThing \in DOMAIN wlNames => Str(wlNames[NameSomeThing]) = "SomeThing"
        /\ (/\ ~HasPrefix(name, WlPrefix)
            /\ name \in DOMAIN wlNames /\ (WlPrefix \o name) \in DOMAIN wlNames)
           => wlNames[name] = wlNames[WlPrefix \o name]
        /\ cased # <<>> =>
              /\ cased[1] = LowerFirstCase(name)
              /\ cased[2] = LowerFirstCase(WlPrefix \o name)
              /\ ~HasPrefix(name, WlPrefix) => cased[1] = cased[2]

\* "some_thing" and "wl_some_thing" are both registered and cased
C9_Witness ==
    /\ pc = "case" /\ name = Stripped(NameSomeThing)
    /\ name \in DOMAIN wlNames /\ NameSomeThing \in DOMAIN wlNames
    /\ Str(wlNames[name]) = "SomeThing"
    /\ cased # <<>> /\ Str(cased[2]) = "someThing"

\* C10: in scanner.go, when client.go exists and -o was not given, the run
\* logs a message and ends without a fatal error, and the file is not
\* created, truncated or written and the formatter is not run; when the
\* destination cannot be created the run ends fatally, in both files.
C10_OverwriteProtection ==
    pc \notin {"case", "run"} =>
        /\ (src = "scanner" /\ out.existed = "yes" /\ ~overwrite) =>
              /\ exit = "zero" /\ pc = "stat"
              /\ LastLogged = "client.go exists if you want to overwrite try -o flag"
              /\ out.state = "old" /\ out.data = Untouched.data
              /\ out.creates = 0 /\ out.writes = 0 /\ out.fmtRuns = 0
        /\ (exit = "zero" /\ out.creates = 0) =>
              (src = "scanner" /\ out.existed = "yes" /\ ~overwrite)
        /\ pc \in {"write", "fmt", "done"} => out.creates = 1
        /\ LastLogged = "Cannot create file" =>
              /\ exit = "fatal" /\ pc = "create"
              /\ out.creates = 0 /\ out.writes = 0 /\ out.fmtRuns = 0

\* scanner.go has found client.go, -o was not given, and the run has ended
C10_Witness ==
    /\ src = "scanner" /\ ~overwrite
    /\ out.existed = "yes" /\ exit = "zero"
    /\ Len(oldBuffers.ifaceBuffer) > 0

-----------------------------------------------------------------------------
(* C11: one creation and one write, after the whole generation             *)

\* the type declarations among the generated declarations, in buffer order
TypeDecls ==
    SelectSeq(Declarations, LAMBDA d : d.tpl \in {"InterfaceTypeTemplate", "type"})

\* main is at a step before the destination is created
BeforeCreate ==
    pc \in {"start", "seed", "register", "header", "events", "constructor",
            "requests", "enums", "stat"}

\* C11: the destination is created at most once and written at most once,
\* and only after the generation loop has passed every interface, the buffer
\* then holding the type declaration of every interface in the order the
\* protocol declares them, and a complete write stores what the buffers
\* hold; a run that has ended fatally before the creation step (while
\* loading, registering or generating) has not created or written anything.
C11_WrittenOnceAfterGeneration ==
    pc \notin {"case", "run"} =>
        /\ out.creates <= 1 /\ out.writes <= 1 /\ out.writes <= out.creates
        /\ BeforeCreate => (out.creates = 0 /\ out.writes = 0 /\ out.data = <<>>)
        /\ out.creates = 1 =>
              /\ pc \in {"write", "fmt", "done"}
              /\ idx = Len(protocol.Interfaces) + 1
              /\ LET types == TypeDecls
                 IN  /\ Len(types) = Len(protocol.Interfaces)
                     /\ \A i \in 1..Len(types) : types[i].type = RecvOf(i)
        /\ out.state \in {"written", "formatted"} => out.data = Generated
        /\ (exit = "fatal" /\ LastLogged # "Cannot run cmd") =>
              /\ out.creates = 0 /\ out.writes = 0
              /\ out.state \in {"untouched", "absent", "old"}

\* the generated text of two interfaces has been written to the destination
C11_Witness ==
    /\ pc = "fmt" /\ out.creates = 1 /\ out.writes = 1
    /\ out.state = "written"
    /\ Len(protocol.Interfaces) = 2
    /\ Len(out.data) > Len(protocol.Interfaces)

\* a run has ended fatally inside the generation loop
C11_FatalWitness ==
    /\ exit = "fatal" /\ pc = "requests" /\ out = Untouched
    /\ Len(Declarations) > 0

-----------------------------------------------------------------------------
(* C12: the arguments of the send-request call                             *)

\* what one Arg contributes to the call: the constructed object as a handle,
\* the interface name, version and handle of a late-bound object, or the
\* name of the parameter
SendEntries(arg) ==
    IF arg.Type = "new_id"
    THEN IF arg.Interface # <<>>
         THEN <<"Proxy(ret)">>
         ELSE <<"iface", "version", Str(arg.Name)>>
    ELSE <<Str(arg.Name)>>

\* the entries of all Args, in Arg order
RECURSIVE SendEntriesOf(_)
SendEntriesOf(args) ==
    IF args = <<>> THEN <<>>
    ELSE SendEntries(Head(args)) \o SendEntriesOf(Tail(args))

\* the entries as the call has them: each after a comma
RECURSIVE SendArgsText(_)
SendArgsText(entries) ==
    IF entries = <<>> THEN ""
    ELSE "," \o Head(entries) \o SendArgsText(Tail(entries))

\* C12: the send-request call of every generated request method passes,
\* after the receiver and the opcode, the entries of the request's Args in
\* Arg declaration order: the parameter's name, "Proxy(ret)" for a typed
\* new_id, and iface, version and the parameter's name for a late-bound
\* new_id, wherever the new_id stands among the Args.
C12_SendArgsInArgOrder ==
    pc \notin {"case", "run"} =>
    \A i \in 1..Len(protocol.Interfaces) :
      \A k \in 1..Len(protocol.Interfaces[i].Requests) :
        LET expected ==
                SendArgsText(SendEntriesOf(protocol.Interfaces[i].Requests[k].Args))
        IN  \A d \in ReqDecls(i, k) : d.call.args = expected

-----------------------------------------------------------------------------
(* C13: Dispatch with handlers that call back                              *)

\* goroutine g is inside Dispatch, or inside a call a handler of that
\* Dispatch has made
InDispatch(g) == gs[g].op = "dispatch" \/ gs[g].stack # <<>>

\* C13: every call of Dispatch returns, also when a handler it invokes calls
\* AddHandler or RemoveHandler of the same instance: that call completes and
\* Dispatch goes on to its return.
C13_DispatchTerminates ==
    \A g \in NestGoroutines : InDispatch(g) ~> (gs[g].pc = "idle")

-----------------------------------------------------------------------------
(* C14: the type definition and the events of its interface                *)

\* the generation loop has rendered the type definition of interface i
TypeDone(i) == GenPhase /\ (i < idx \/ (i = idx /\ pc \in {"requests", "enums"}))

\* where the type definition of interface i stands among the declarations
TypePositions(i) ==
    LET recv  == RecvOf(i)
        decls == Declarations
    IN  {n \in 1..Len(decls) :
            /\ decls[n].tpl \in {"InterfaceTypeTemplate", "type"}
            /\ decls[n].type = recv}

\* the generated AddHandler and RemoveHandler of event k of interface i
AddRemoveDecls(i, k) ==
    LET recv == RecvOf(i)
        add  == "Add" \o Str(CamelCase(protocol.Interfaces[i].Events[k].Name))
                    \o "Handler"
    IN  {d \in Range(Declarations) :
            d.tpl = "AddRemoveHandlerTemplate" /\ d.recv = recv /\ d.add = add}

\* C14: once the generation loop has rendered the type definition of an
\* interface there is exactly one, and none before.  In wl-scanner.go it
\* declares one handler list per event of the interface, no two under the
\* same name, the list of event k under the name that the AddHandler and
\* RemoveHandler of event k and the case of event k in Dispatch use, and it
\* declares the lock mu exactly if the interface has an event.  In
\* scanner.go, which generates channels in place of handler lists and no
\* lock, it declares one channel per event under the event's canonical name.
\* This holds for every interface, whatever the events of the others.
C14_TypeDeclaresEventLists ==
    pc \notin {"case", "run", "nest"} =>
    \A i \in 1..Len(protocol.Interfaces) :
      LET events == protocol.Interfaces[i].Events
          at     == TypePositions(i)
      IN  /\ Cardinality(at) = IF TypeDone(i) THEN 1 ELSE 0
          /\ \A n \in at :
               LET d == Declarations[n]
               IN  IF src = "wl-scanner"
                   THEN /\ Len(d.lists) = Len(events)
                        /\ \A j, k \in 1..Len(d.lists) : j # k => d.lists[j] # d.lists[k]
                        /\ d.mu <=> Len(events) > 0
                        /\ \A k \in 1..Len(events) :
                              /\ AddRemoveDecls(i, k) # {}
                              /\ \A a \in AddRemoveDecls(i, k) :
                                    a.list = d.lists[k] /\ a.lock = "mu" /\ d.mu
                              /\ DispatchDecls(i) # {}
                              /\ \A dd \in DispatchDecls(i) :
                                    /\ dd.lock = "mu" /\ d.mu
                                    /\ CasesOf(dd, i, k) # {}
                                    /\ \A c \in CasesOf(dd, i, k) : c.list = d.lists[k]
                   ELSE /\ Len(d.chans) = Len(events)
                        /\ \A k \in 1..Len(events) :
                              /\ d.chans[k] = Str(CamelCase(events[k].Name)) \o "Chan"
                              /\ EventDecls(i, k) # {}

\* wl-scanner.go has rendered the type of a second interface that has fewer
\* events than the first, after a first interface with two events
C14_Witness ==
    /\ src = "wl-scanner" /\ pc = "requests" /\ idx = 2
    /\ Len(protocol.Interfaces) = 2
    /\ Len(protocol.Interfaces[1].Events) = 2
    /\ Len(protocol.Interfaces[2].Events) = 1
    /\ \E n \in TypePositions(2) :
          /\ Len(Declarations[n].lists) = 1 /\ Declarations[n].mu
    /\ \E n \in TypePositions(1) : Len(Declarations[n].lists) = 2

=============================================================================
